---- MODULE Spec2Model ----
(***************************************************************************)
(* Model of crates/ide-completion/src/completions.rs: the completion       *)
(* accumulator (Completions), the variant path enumerator                  *)
(* (enum_variants_with_paths) and the two dispatch routers                 *)
(* (complete_name, complete_name_ref, complete_patterns).                  *)
(*                                                                         *)
(* Three specifications share the module:                                  *)
(*   Spec        the accumulator: every append method and the conversion   *)
(*   SpecEnum    enum_variants_with_paths, one loop iteration per step     *)
(*   SpecRouter  complete_name / complete_name_ref, one strategy per step  *)
(***************************************************************************)
EXTENDS Integers, Sequences, FiniteSets, TLC

VARIABLES
    buf,          \* Completions.buf: Vec<CompletionItem>
    snippet_cap,  \* ctx.config.snippet_cap: "Some" or "None", fixed per request
    consumed,     \* TRUE once the accumulator was moved into a Vec (From)
    out,          \* the Vec<CompletionItem> the conversion returned
    last,         \* history: the accumulator call made by the last step
    variants,     \* enum_.variants(ctx.db): the declared variants, in order
    impl_,        \* the impl_ argument and what it resolves to
    use_path,     \* ctx.module.find_use_path per variant: 0 = None, n = segments
    epc,          \* enum_variants_with_paths: position in the function
    ei,           \* enum_variants_with_paths: index of the running loop
    cb_log,       \* history: the callback invocations, in call order
    ctx_kind,     \* the classified context handed to the router
    rpc,          \* router: position in complete_name / complete_name_ref
    todo,         \* router: the strategy calls the running arm has still to make
    trace,        \* history: the strategies invoked so far, in call order
    buf0          \* history: the accumulator as the router received it

vars == <<buf, snippet_cap, consumed, out, last, variants, impl_, use_path,
          epc, ei, cb_log, ctx_kind, rpc, todo, trace, buf0>>

acc_vars    == <<buf, snippet_cap, consumed, out, last>>
enum_vars   == <<variants, impl_, use_path, epc, ei, cb_log>>
router_vars == <<ctx_kind, rpc, todo, trace, buf0>>

(***************************************************************************)
(* Bounds                                                                  *)
(***************************************************************************)
\* Accumulator calls are made while the list is shorter than this.
MaxBuf == 2
\* Longest list handed to add_all, longest scope walked by add_crate_roots.
MaxItems == 2

(***************************************************************************)
(* Text: a string is a sequence of characters                              *)
(***************************************************************************)
\* Mutant of ends_with: the character anywhere in the string counts.
ends_with_anywhere(s, c) == \E i \in 1..Len(s) : s[i] = c

\* str::ends_with(char)
ends_with(s, c) == Len(s) > 0 /\ s[Len(s)] = c

\* Mutant of contains: only the first character is looked at.
contains_at_start(s, c) == Len(s) > 0 /\ s[1] = c

\* str::contains(char)
contains(s, c) == \E i \in 1..Len(s) : s[i] = c

\* format!("{};", snippet)
format_semi(s) == Append(s, ";")

(***************************************************************************)
(* Symbols and the Visibility Oracle (ctx.is_visible, external)            *)
(***************************************************************************)
\* One symbol per tier of the oracle.
Sym == {"pub_sym", "edit_sym", "hid_sym"}

NoSym == "none"

\* ctx.is_visible(&def): Visible::Yes | Visible::Editable | Visible::No
is_visible(s) ==
    CASE s = "pub_sym"  -> "Yes"
      [] s = "edit_sym" -> "Editable"
      [] s = "hid_sym"  -> "No"

\* Scope definitions handed to add_resolution / walked by process_all_names.
ScopeDef == {"root_shown", "root_hidden", "def_shown"}

\* ctx.is_scope_def_hidden(resolution)
is_scope_def_hidden(d) == d = "root_hidden"

\* ScopeDef::ModuleDef(ModuleDef::Module(m)) if m.is_crate_root(ctx.db)
is_crate_root(d) == d \in {"root_shown", "root_hidden"}

(***************************************************************************)
(* Candidates and the Renderer (crate::render, crate::item; external)      *)
(***************************************************************************)
\* A CompletionItem: who built it, for which symbol, with which
\* private-editable flag, its label and the text it inserts.
Item(by, sym, pe, label, insert, snip) ==
    [by |-> by, sym |-> sym, private_editable |-> pe,
     label |-> label, insert |-> insert, is_snippet |-> snip]

\* Option<T>
None == <<>>
Some(x) == <<x>>

\* RenderContext::new(ctx): the private-editable flag starts unset.
RenderContext_new == [is_private_editable |-> FALSE]

\* RenderContext::private_editable(self, private_editable)
private_editable(rctx, flag) == [rctx EXCEPT !.is_private_editable = flag]

\* A renderer that always builds: render_macro, render_fn, render_method,
\* render_field, render_tuple_field, render_resolution(_simple).
render(by, rctx, s) == Item(by, s, rctx.is_private_editable, <<>>, <<>>, FALSE)

\* A renderer that may decline (declines is the renderer's answer for this
\* symbol and auxiliary data): render_const, render_type_alias(_with_eq),
\* render_variant_lit, render_struct_literal, render_union_literal,
\* render_variant_pat, render_struct_pat.
render_opt(by, rctx, s, declines) ==
    IF declines THEN None ELSE Some(render(by, rctx, s))

\* CompletionItem::new(kind, ctx.source_range(), label)
CompletionItem_new(kind, label) == Item(kind, NoSym, FALSE, label, <<>>, FALSE)

\* Builder::insert_text(text)
insert_text(item, text) == [item EXCEPT !.insert = text]

\* Builder::insert_snippet(cap, snippet)
insert_snippet(item, snippet) ==
    [item EXCEPT !.insert = snippet, !.is_snippet = TRUE]


(***************************************************************************)
(* Completions: the accumulator's methods, as functions from the list      *)
(* before the call to the list after it                                    *)
(***************************************************************************)
\* impl From<Completions> for Vec<CompletionItem>
From(val_buf) == val_buf

\* Mutant of add: the new candidate goes to the front of the list.
add_at_front(b, item) == <<item>> \o b

\* Completions::add
add(b, item) == Append(b, item)

\* Mutant of add_opt: a produced candidate is dropped like a declined one.
add_opt_dropping(b, item) == b

\* Completions::add_opt
add_opt(b, item) == IF item # None THEN Append(b, item[1]) ELSE b

\* Completions::add_all: items.into_iter().for_each(|item| self.add(item.into()))
RECURSIVE add_all(_, _)
add_all(b, items) ==
    IF items = <<>> THEN b ELSE add_all(add(b, Head(items)), Tail(items))

\* Builder::add_to: acc.add(self.build())
add_to(item, b) == add(b, item)

\* Completions::add_keyword
add_keyword(b, keyword) == add_to(CompletionItem_new("Keyword", keyword), b)

\* [..].into_iter().for_each(|kw| self.add_keyword(ctx, kw))
RECURSIVE for_each_add_keyword(_, _)
for_each_add_keyword(b, kws) ==
    IF kws = <<>> THEN b
    ELSE for_each_add_keyword(add_keyword(b, Head(kws)), Tail(kws))

KW_SELF  == <<"s", "e", "l", "f">>
KW_SUPER == <<"s", "u", "p", "e", "r">>
KW_CRATE == <<"c", "r", "a", "t", "e">>
COLON2   == <<":", ":">>

\* Completions::add_nameref_keywords_with_colon
add_nameref_keywords_with_colon(b) ==
    for_each_add_keyword(b, <<KW_SELF \o COLON2, KW_SUPER \o COLON2, KW_CRATE \o COLON2>>)

\* Mutant of add_nameref_keywords: super comes before self.
add_nameref_keywords_reordered(b) ==
    for_each_add_keyword(b, <<KW_SUPER, KW_SELF, KW_CRATE>>)

\* Completions::add_nameref_keywords
add_nameref_keywords(b) ==
    for_each_add_keyword(b, <<KW_SELF, KW_SUPER, KW_CRATE>>)

\* Completions::add_keyword_snippet_expr
add_keyword_snippet_expr(b, cap, kw, snippet, incomplete_let) ==
    LET item == CompletionItem_new("Keyword", kw)
        built ==
            IF cap = "Some"
            THEN IF ends_with(snippet, "}") /\ incomplete_let
                 THEN insert_snippet(item, format_semi(snippet))
                 ELSE insert_snippet(item, snippet)
            ELSE insert_text(item, IF contains(snippet, "$") THEN kw ELSE snippet)
    IN  add_to(built, b)

\* Completions::add_keyword_snippet
add_keyword_snippet(b, cap, kw, snippet) ==
    LET item == CompletionItem_new("Keyword", kw)
        built ==
            IF cap = "Some"
            THEN insert_snippet(item, snippet)
            ELSE insert_text(item, IF contains(snippet, "$") THEN kw ELSE snippet)
    IN  add_to(built, b)

\* Completions::add_resolution
add_resolution(b, resolution) ==
    IF is_scope_def_hidden(resolution) THEN b
    ELSE add(b, render("render_resolution", RenderContext_new, resolution))

\* Completions::add_resolution_simple
add_resolution_simple(b, resolution) ==
    IF is_scope_def_hidden(resolution) THEN b
    ELSE add(b, render("render_resolution_simple", RenderContext_new, resolution))

\* Completions::add_crate_roots: names is what ctx.process_all_names walks
RECURSIVE add_crate_roots(_, _)
add_crate_roots(b, names) ==
    IF names = <<>> THEN b
    ELSE add_crate_roots(
             IF is_crate_root(Head(names)) THEN add_resolution(b, Head(names)) ELSE b,
             Tail(names))

\* Completions::add_macro
add_macro(b, mac) ==
    LET v == is_visible(mac) IN
    IF v = "No" THEN b
    ELSE add(b, render("render_macro",
                       private_editable(RenderContext_new, v = "Editable"), mac))

\* Completions::add_function
add_function(b, func) ==
    LET v == is_visible(func) IN
    IF v = "No" THEN b
    ELSE add(b, render("render_fn",
                       private_editable(RenderContext_new, v = "Editable"), func))

\* Completions::add_method
add_method(b, func) ==
    LET v == is_visible(func) IN
    IF v = "No" THEN b
    ELSE add(b, render("render_method",
                       private_editable(RenderContext_new, v = "Editable"), func))

\* Completions::add_const
add_const(b, konst, declines) ==
    LET v == is_visible(konst) IN
    IF v = "No" THEN b
    ELSE add_opt(b, render_opt("render_const",
                       private_editable(RenderContext_new, v = "Editable"),
                       konst, declines))

\* Completions::add_type_alias
add_type_alias(b, type_alias, declines) ==
    LET v == is_visible(type_alias) IN
    IF v = "No" THEN b
    ELSE add_opt(b, render_opt("render_type_alias",
                       private_editable(RenderContext_new, v = "Editable"),
                       type_alias, declines))

\* Completions::add_type_alias_with_eq
add_type_alias_with_eq(b, type_alias, declines) ==
    add_opt(b, render_opt("render_type_alias_with_eq", RenderContext_new,
                          type_alias, declines))

\* Completions::add_qualified_enum_variant
add_qualified_enum_variant(b, variant, declines) ==
    LET builder == render_opt("render_variant_lit_path", RenderContext_new,
                              variant, declines)
    IN  IF builder # None THEN add(b, builder[1]) ELSE b

\* Completions::add_enum_variant
add_enum_variant(b, variant, declines) ==
    LET builder == render_opt("render_variant_lit", RenderContext_new,
                              variant, declines)
    IN  IF builder # None THEN add(b, builder[1]) ELSE b

\* Completions::add_field
add_field(b, field) ==
    LET v == is_visible(field) IN
    IF v = "No" THEN b
    ELSE add(b, render("render_field",
                       private_editable(RenderContext_new, v = "Editable"), field))

\* Completions::add_struct_literal
add_struct_literal(b, strukt, declines) ==
    LET builder == render_opt("render_struct_literal", RenderContext_new,
                              strukt, declines)
    IN  IF builder # None THEN add(b, builder[1]) ELSE b

\* Completions::add_union_literal
add_union_literal(b, un, declines) ==
    add_opt(b, render_opt("render_union_literal", RenderContext_new, un, declines))

\* Completions::add_tuple_field
add_tuple_field(b, field) ==
    add(b, render("render_tuple_field", RenderContext_new, field))

\* Completions::add_lifetime
add_lifetime(b, name) == add_to(CompletionItem_new("LifetimeParam", name), b)

\* Completions::add_label
add_label(b, name) == add_to(CompletionItem_new("Label", name), b)

\* Completions::add_variant_pat
add_variant_pat(b, variant, declines) ==
    add_opt(b, render_opt("render_variant_pat", RenderContext_new, variant, declines))

\* Completions::add_qualified_variant_pat
add_qualified_variant_pat(b, variant, declines) ==
    add_opt(b, render_opt("render_variant_pat_path", RenderContext_new,
                          variant, declines))

\* Completions::add_struct_pat
add_struct_pat(b, strukt, declines) ==
    add_opt(b, render_opt("render_struct_pat", RenderContext_new, strukt, declines))

(***************************************************************************)
(* The accumulator as a state machine: one action per method               *)
(***************************************************************************)
\* Inputs of the calls.
RawItems == {CompletionItem_new("Snippet", <<"a">>),
             CompletionItem_new("Snippet", <<"b">>)}

RECURSIVE SeqsUpTo(_, _)
SeqsUpTo(S, n) ==
    IF n = 0 THEN {<<>>}
    ELSE LET shorter == SeqsUpTo(S, n - 1)
         IN  shorter \cup {Append(s, x) : s \in shorter, x \in S}

Keywords == {<<"f", "n">>}
Names    == {<<"'", "a">>}
\* Snippet bodies: with and without a placeholder, ending in '}' or not.
Snippets == {<<"a">>, <<"$", "0">>, <<"{", "}">>, <<"{", "$", "0", "}">>, <<"}", "a">>}

NoCall ==
    [op |-> "none", sym |-> NoSym, declines |-> FALSE, arg |-> <<>>,
     kw |-> <<>>, snippet |-> <<>>, incomplete_let |-> FALSE]

IdleEnum ==
    /\ variants = <<>> /\ impl_ = "idle" /\ use_path = <<>>
    /\ epc = "idle" /\ ei = 0 /\ cb_log = <<>>

NoContext == [shape |-> "idle", kind |-> "-", path_kind |-> "-", sub |-> "-"]

IdleRouter ==
    /\ ctx_kind = NoContext /\ rpc = "idle"
    /\ todo = <<>> /\ trace = <<>> /\ buf0 = <<>>

\* Completions::default(), under either snippet capability
Init ==
    /\ buf = <<>>
    /\ snippet_cap \in {"Some", "None"}
    /\ consumed = FALSE
    /\ out = <<>>
    /\ last = NoCall
    /\ IdleEnum
    /\ IdleRouter

\* A call on the live accumulator leaving new_buf, recorded in last.
Call(call, new_buf) ==
    /\ ~consumed
    /\ Len(buf) < MaxBuf
    /\ buf' = new_buf
    /\ last' = call
    /\ UNCHANGED <<snippet_cap, consumed, out>>
    /\ UNCHANGED enum_vars
    /\ UNCHANGED router_vars

OnSym(op, s, d) == [NoCall EXCEPT !.op = op, !.sym = s, !.declines = d]

Add ==
    \E item \in RawItems :
        Call([NoCall EXCEPT !.op = "add", !.arg = <<item>>], add(buf, item))

AddOpt ==
    \E o \in {None} \cup {Some(item) : item \in RawItems} :
        Call([NoCall EXCEPT !.op = "add_opt", !.arg = o], add_opt(buf, o))

AddAll ==
    \E items \in SeqsUpTo(RawItems, MaxItems) :
        Call([NoCall EXCEPT !.op = "add_all", !.arg = items], add_all(buf, items))

AddKeyword ==
    \E kw \in Keywords :
        Call([NoCall EXCEPT !.op = "add_keyword", !.kw = kw], add_keyword(buf, kw))

AddNamerefKeywordsWithColon ==
    Call([NoCall EXCEPT !.op = "add_nameref_keywords_with_colon"],
         add_nameref_keywords_with_colon(buf))

AddNamerefKeywords ==
    Call([NoCall EXCEPT !.op = "add_nameref_keywords"], add_nameref_keywords(buf))

AddKeywordSnippetExpr ==
    \E kw \in Keywords, snippet \in Snippets, il \in BOOLEAN :
        Call([NoCall EXCEPT !.op = "add_keyword_snippet_expr", !.kw = kw,
                            !.snippet = snippet, !.incomplete_let = il],
             add_keyword_snippet_expr(buf, snippet_cap, kw, snippet, il))

AddKeywordSnippet ==
    \E kw \in Keywords, snippet \in Snippets :
        Call([NoCall EXCEPT !.op = "add_keyword_snippet", !.kw = kw,
                            !.snippet = snippet],
             add_keyword_snippet(buf, snippet_cap, kw, snippet))

AddCrateRoots ==
    \E names \in SeqsUpTo(ScopeDef, MaxItems) :
        Call([NoCall EXCEPT !.op = "add_crate_roots"], add_crate_roots(buf, names))

AddResolution ==
    \E d \in ScopeDef : Call(OnSym("add_resolution", d, FALSE), add_resolution(buf, d))

AddResolutionSimple ==
    \E d \in ScopeDef :
        Call(OnSym("add_resolution_simple", d, FALSE), add_resolution_simple(buf, d))

AddMacro ==
    \E s \in Sym : Call(OnSym("add_macro", s, FALSE), add_macro(buf, s))

AddFunction ==
    \E s \in Sym : Call(OnSym("add_function", s, FALSE), add_function(buf, s))

AddMethod ==
    \E s \in Sym : Call(OnSym("add_method", s, FALSE), add_method(buf, s))

AddConst ==
    \E s \in Sym, d \in BOOLEAN : Call(OnSym("add_const", s, d), add_const(buf, s, d))

AddTypeAlias ==
    \E s \in Sym, d \in BOOLEAN :
        Call(OnSym("add_type_alias", s, d), add_type_alias(buf, s, d))

AddTypeAliasWithEq ==
    \E s \in Sym, d \in BOOLEAN :
        Call(OnSym("add_type_alias_with_eq", s, d), add_type_alias_with_eq(buf, s, d))

AddQualifiedEnumVariant ==
    \E s \in Sym, d \in BOOLEAN :
        Call(OnSym("add_qualified_enum_variant", s, d),
             add_qualified_enum_variant(buf, s, d))

AddEnumVariant ==
    \E s \in Sym, d \in BOOLEAN :
        Call(OnSym("add_enum_variant", s, d), add_enum_variant(buf, s, d))

AddField ==
    \E s \in Sym : Call(OnSym("add_field", s, FALSE), add_field(buf, s))

AddStructLiteral ==
    \E s \in Sym, d \in BOOLEAN :
        Call(OnSym("add_struct_literal", s, d), add_struct_literal(buf, s, d))

AddUnionLiteral ==
    \E s \in Sym, d \in BOOLEAN :
        Call(OnSym("add_union_literal", s, d), add_union_literal(buf, s, d))

AddTupleField ==
    Call(OnSym("add_tuple_field", "field_0", FALSE), add_tuple_field(buf, "field_0"))

AddLifetime ==
    \E name \in Names :
        Call([NoCall EXCEPT !.op = "add_lifetime", !.kw = name], add_lifetime(buf, name))

AddLabel ==
    \E name \in Names :
        Call([NoCall EXCEPT !.op = "add_label", !.kw = name], add_label(buf, name))

AddVariantPat ==
    \E s \in Sym, d \in BOOLEAN :
        Call(OnSym("add_variant_pat", s, d), add_variant_pat(buf, s, d))

AddQualifiedVariantPat ==
    \E s \in Sym, d \in BOOLEAN :
        Call(OnSym("add_qualified_variant_pat", s, d),
             add_qualified_variant_pat(buf, s, d))

AddStructPat ==
    \E s \in Sym, d \in BOOLEAN :
        Call(OnSym("add_struct_pat", s, d), add_struct_pat(buf, s, d))

\* Vec::from(acc): the accumulator is moved out, once, at the end of the request
Into ==
    /\ ~consumed
    /\ out' = From(buf)
    /\ consumed' = TRUE
    /\ last' = [NoCall EXCEPT !.op = "into"]
    /\ UNCHANGED <<buf, snippet_cap>>
    /\ UNCHANGED enum_vars
    /\ UNCHANGED router_vars

Next ==
    \/ Add \/ AddOpt \/ AddAll
    \/ AddKeyword \/ AddNamerefKeywordsWithColon \/ AddNamerefKeywords
    \/ AddKeywordSnippetExpr \/ AddKeywordSnippet
    \/ AddCrateRoots \/ AddResolution \/ AddResolutionSimple
    \/ AddMacro \/ AddFunction \/ AddMethod
    \/ AddConst \/ AddTypeAlias \/ AddTypeAliasWithEq
    \/ AddQualifiedEnumVariant \/ AddEnumVariant
    \/ AddField \/ AddStructLiteral \/ AddUnionLiteral \/ AddTupleField
    \/ AddLifetime \/ AddLabel
    \/ AddVariantPat \/ AddQualifiedVariantPat \/ AddStructPat
    \/ Into

Spec == Init /\ [][Next]_vars

(***************************************************************************)
(* Properties of the accumulator (checked under Spec)                      *)
(***************************************************************************)
IsPrefix(s, t) == Len(s) <= Len(t) /\ SubSeq(t, 1, Len(s)) = s

\* The symbol-typed append methods.
SymbolTypedOps ==
    {"add_macro", "add_function", "add_method", "add_const", "add_type_alias",
     "add_type_alias_with_eq", "add_field", "add_enum_variant",
     "add_qualified_enum_variant", "add_struct_literal", "add_union_literal",
     "add_variant_pat", "add_qualified_variant_pat", "add_struct_pat"}

\* Those whose Renderer returns an optional candidate.
OptionalOps ==
    {"add_const", "add_type_alias", "add_type_alias_with_eq", "add_enum_variant",
     "add_qualified_enum_variant", "add_struct_literal", "add_union_literal",
     "add_variant_pat", "add_qualified_variant_pat", "add_struct_pat"}

\* The Renderer each symbol-typed method hands its symbol to.
RendererOf(op) ==
    CASE op = "add_macro"                  -> "render_macro"
      [] op = "add_function"               -> "render_fn"
      [] op = "add_method"                 -> "render_method"
      [] op = "add_const"                  -> "render_const"
      [] op = "add_type_alias"             -> "render_type_alias"
      [] op = "add_type_alias_with_eq"     -> "render_type_alias_with_eq"
      [] op = "add_field"                  -> "render_field"
      [] op = "add_enum_variant"           -> "render_variant_lit"
      [] op = "add_qualified_enum_variant" -> "render_variant_lit_path"
      [] op = "add_struct_literal"         -> "render_struct_literal"
      [] op = "add_union_literal"          -> "render_union_literal"
      [] op = "add_variant_pat"            -> "render_variant_pat"
      [] op = "add_qualified_variant_pat"  -> "render_variant_pat_path"
      [] op = "add_struct_pat"             -> "render_struct_pat"

SymbolRenderers == {RendererOf(op) : op \in SymbolTypedOps}

\* C1: a symbol-typed append method called on a symbol the Visibility Oracle
\* reports Hidden returns with the accumulator unchanged, whatever the
\* Renderer answers, so the list never holds a candidate for a Hidden symbol.
C1_HiddenLeavesAccumulatorUnchanged ==
    [][(last'.op \in SymbolTypedOps /\ is_visible(last'.sym) = "No")
           => buf' = buf]_vars

\* C2: every candidate a symbol-typed method appended carries the
\* private-editable flag exactly when the oracle's tier for its symbol is
\* VisibleIfEditable.
C2_FlagIffVisibleIfEditable ==
    \A i \in DOMAIN buf :
        buf[i].by \in SymbolRenderers =>
            (buf[i].private_editable <=> is_visible(buf[i].sym) = "Editable")

\* C3: the accumulator is append-only and order-preserving: the list before a
\* step is a prefix of the list after it, add / add_opt / add_all append exactly
\* their arguments in order (duplicates kept), and the conversion returns the
\* list as it stands.
C3_AppendOnly ==
    [][/\ IsPrefix(buf, buf')
       /\ last'.op \in {"add", "add_opt", "add_all"} => buf' = buf \o last'.arg
       /\ last'.op = "into" => (out' = buf /\ buf' = buf)]_vars

\* C3 witness: a converted list that kept a duplicate next to another candidate.
C3_Witness ==
    /\ consumed
    /\ \E i, j, k \in DOMAIN out : i < j /\ out[i] = out[j] /\ out[k] # out[i]

\* C4: for a method with an optional Renderer called on a symbol that is not
\* Hidden: a declining Renderer leaves the accumulator unchanged, a producing
\* one gets exactly its candidate appended at the end.
C4_OptionalRenderer ==
    [][(last'.op \in OptionalOps /\ is_visible(last'.sym) # "No") =>
           IF last'.declines
           THEN buf' = buf
           ELSE /\ Len(buf') = Len(buf) + 1
                /\ SubSeq(buf', 1, Len(buf)) = buf
                /\ buf'[Len(buf')].by = RendererOf(last'.op)
                /\ buf'[Len(buf')].sym = last'.sym]_vars

\* C4 witness: the Renderer declined a visible symbol after an optional
\* Renderer's candidate had been appended, and that candidate is still there.
C4_Witness ==
    /\ last.op \in OptionalOps
    /\ is_visible(last.sym) # "No"
    /\ last.declines
    /\ Len(buf) = 1
    /\ buf[1].by \in {RendererOf(op) : op \in OptionalOps}

(***************************************************************************)
(* enum_variants_with_paths, one loop iteration per step (SpecEnum)        *)
(***************************************************************************)
\* Most variants of the enum.
MaxVariants == 2
\* Most segments of a path find_use_path returns.
MaxPathLen == 3

\* What the impl_ argument can be: None; Some but ctx.sema.to_def fails;
\* Some, resolved, self type is this enum; Some, resolved, another self type.
ImplCases == {"none", "unresolved", "this_enum", "other_type"}

\* variant.name(ctx.db)
variant_name(v) == <<"V", v>>

\* known::SELF_TYPE
SELF_TYPE == <<"Self">>

\* hir::ModPath::from_segments(PathKind::Plain, once(SELF_TYPE).chain(once(name)))
self_path(v) == <<SELF_TYPE, variant_name(v)>>

\* ctx.module.find_use_path(ctx.db, variant): None, or the minimal import path,
\* which ends in the variant's name (E::V, m::E::V, ...)
find_use_path(v) ==
    IF use_path[v] = 0 THEN None
    ELSE Some([i \in 1..use_path[v] |->
                  IF i = use_path[v] THEN variant_name(v)
                  ELSE IF i = use_path[v] - 1 THEN <<"E">> ELSE <<"m", i>>])

\* Mutant of impl_is_for_enum: the impl's self type is not compared.
impl_is_resolved == impl_ \in {"this_enum", "other_type"}

\* impl_.as_ref().and_then(|impl_| ctx.sema.to_def(impl_)) is Some and
\* impl_.self_ty(ctx.db).as_adt() == Some(hir::Adt::Enum(enum_))
impl_is_for_enum == impl_ = "this_enum"

\* Mutant of is_multi_segment: single-segment paths pass too.
is_any_segment(path) == Len(path) >= 1

\* path.segments().len() > 1
is_multi_segment(path) == Len(path) > 1

\* cb(acc, ctx, variant, path): the caller's callback, seen as its invocation
cb(log, variant, path) == Append(log, [variant |-> variant, path |-> path])

AccIdle ==
    /\ buf = <<>> /\ snippet_cap = "None" /\ consumed = FALSE
    /\ out = <<>> /\ last = NoCall

\* The call's arguments: an enum, the enclosing impl, the paths in scope.
InitEnum ==
    /\ \E n \in 0..MaxVariants :
          /\ variants = [i \in 1..n |-> i]
          /\ use_path \in [1..n -> 0..MaxPathLen]
    /\ impl_ \in ImplCases
    /\ epc = "start"
    /\ ei = 0
    /\ cb_log = <<>>
    /\ AccIdle
    /\ IdleRouter

\* if let Some(impl_) = .. { if impl_.self_ty(..).as_adt() == Some(..) {
EnterSelfLoop ==
    /\ epc = "start"
    /\ impl_is_for_enum
    /\ epc' = "self_loop"
    /\ ei' = 1
    /\ UNCHANGED <<variants, impl_, use_path, cb_log>>
    /\ UNCHANGED acc_vars /\ UNCHANGED router_vars

\* the if let / if fails: straight to the second loop
SkipSelfLoop ==
    /\ epc = "start"
    /\ ~impl_is_for_enum
    /\ epc' = "path_loop"
    /\ ei' = 1
    /\ UNCHANGED <<variants, impl_, use_path, cb_log>>
    /\ UNCHANGED acc_vars /\ UNCHANGED router_vars

\* Mutant of SelfStep: one loop, each variant's Self path followed at once by
\* its import path.
SelfStepInterleaved ==
    /\ epc = "self_loop"
    /\ ei <= Len(variants)
    /\ LET v == variants[ei]
           p == find_use_path(v)
           l == cb(cb_log, v, self_path(v))
       IN  cb_log' = IF p # None /\ is_multi_segment(p[1]) THEN cb(l, v, p[1]) ELSE l
    /\ ei' = ei + 1
    /\ UNCHANGED <<variants, impl_, use_path, epc>>
    /\ UNCHANGED acc_vars /\ UNCHANGED router_vars

\* for &variant in &variants { cb(acc, ctx, variant, self_path) }
SelfStep ==
    /\ epc = "self_loop"
    /\ ei <= Len(variants)
    /\ cb_log' = cb(cb_log, variants[ei], self_path(variants[ei]))
    /\ ei' = ei + 1
    /\ UNCHANGED <<variants, impl_, use_path, epc>>
    /\ UNCHANGED acc_vars /\ UNCHANGED router_vars

\* the first loop is exhausted
SelfLoopEnd ==
    /\ epc = "self_loop"
    /\ ei > Len(variants)
    /\ epc' = "path_loop"
    /\ ei' = 1
    /\ UNCHANGED <<variants, impl_, use_path, cb_log>>
    /\ UNCHANGED acc_vars /\ UNCHANGED router_vars

\* Mutant of PathStep: a variant already handed over as Self::<variant> is
\* not handed over again with its import path.
PathStepDeduplicated ==
    /\ epc = "path_loop"
    /\ ei <= Len(variants)
    /\ LET v == variants[ei]
           p == find_use_path(v)
           seen == \E i \in DOMAIN cb_log : cb_log[i].variant = v
       IN  cb_log' = IF p # None /\ is_multi_segment(p[1]) /\ ~seen
                     THEN cb(cb_log, v, p[1])
                     ELSE cb_log
    /\ ei' = ei + 1
    /\ UNCHANGED <<variants, impl_, use_path, epc>>
    /\ UNCHANGED acc_vars /\ UNCHANGED router_vars

\* Mutant of PathStep: the variants are walked from the last to the first.
PathStepReversed ==
    /\ epc = "path_loop"
    /\ ei <= Len(variants)
    /\ LET v == variants[Len(variants) + 1 - ei]
           p == find_use_path(v)
       IN  cb_log' = IF p # None /\ is_multi_segment(p[1])
                     THEN cb(cb_log, v, p[1])
                     ELSE cb_log
    /\ ei' = ei + 1
    /\ UNCHANGED <<variants, impl_, use_path, epc>>
    /\ UNCHANGED acc_vars /\ UNCHANGED router_vars

\* for variant in variants { if let Some(path) = find_use_path(..) {
\*     if path.segments().len() > 1 { cb(acc, ctx, variant, path) } } }
PathStep ==
    /\ epc = "path_loop"
    /\ ei <= Len(variants)
    /\ LET v == variants[ei]
           p == find_use_path(v)
       IN  cb_log' = IF p # None /\ is_multi_segment(p[1])
                     THEN cb(cb_log, v, p[1])
                     ELSE cb_log
    /\ ei' = ei + 1
    /\ UNCHANGED <<variants, impl_, use_path, epc>>
    /\ UNCHANGED acc_vars /\ UNCHANGED router_vars

\* the second loop is exhausted: the function returns
EnumReturn ==
    /\ epc = "path_loop"
    /\ ei > Len(variants)
    /\ epc' = "done"
    /\ UNCHANGED <<variants, impl_, use_path, ei, cb_log>>
    /\ UNCHANGED acc_vars /\ UNCHANGED router_vars

NextEnum ==
    \/ EnterSelfLoop \/ SkipSelfLoop \/ SelfStep \/ SelfLoopEnd
    \/ PathStep \/ EnumReturn

SpecEnum == InitEnum /\ [][NextEnum]_vars

(***************************************************************************)
(* Properties of enum_variants_with_paths (checked under SpecEnum)         *)
(***************************************************************************)
IsSelfPath(path) == path[1] = SELF_TYPE

\* The positions of cb_log at which the callback got variant v.
CallsFor(v) == {i \in DOMAIN cb_log : cb_log[i].variant = v}

\* C5: with an enclosing impl whose self type is the enum, every callback
\* invocation with a Self:: path precedes every invocation with an import
\* path, and the Self:: invocations for all variants, in declared order, are
\* complete before the first import path is handed over.
C5_SelfPathsFirst ==
    impl_ = "this_enum" =>
        \A j \in DOMAIN cb_log :
            ~IsSelfPath(cb_log[j].path) =>
                /\ Len(cb_log[j].path) > 1
                /\ \A i \in DOMAIN cb_log : IsSelfPath(cb_log[i].path) => i < j
                /\ j > Len(variants)
                /\ \A i \in 1..Len(variants) :
                       cb_log[i] = [variant |-> variants[i],
                                    path |-> self_path(variants[i])]

\* C5 witness: the run is over, two variants with import paths of different
\* lengths, all four invocations made.
C5_Witness ==
    /\ epc = "done"
    /\ impl_ = "this_enum"
    /\ Len(variants) = 2
    /\ use_path[1] > 1 /\ use_path[2] > 1 /\ use_path[1] # use_path[2]
    /\ Len(cb_log) = 4

\* C6: a variant whose minimal import path has exactly one segment never
\* reaches the callback through the second loop: it is handed over at most
\* once, and only as Self::<variant>, which takes an enclosing impl of the enum.
C6_SingleSegmentSkipped ==
    \A v \in DOMAIN use_path :
        use_path[v] = 1 =>
            /\ Cardinality(CallsFor(v)) <= 1
            /\ \A i \in CallsFor(v) :
                   cb_log[i].path = self_path(v) /\ impl_ = "this_enum"
            /\ (epc = "done" /\ impl_ # "this_enum") => CallsFor(v) = {}

\* C6 witness: the run is over; a single-segment variant got its Self:: path
\* only, next to a multi-segment variant that got both.
C6_Witness ==
    /\ epc = "done"
    /\ impl_ = "this_enum"
    /\ \E v, w \in DOMAIN use_path :
          /\ use_path[v] = 1 /\ Cardinality(CallsFor(v)) = 1
          /\ use_path[w] > 1 /\ Cardinality(CallsFor(w)) = 2

(***************************************************************************)
(* The dispatch routers: complete_name, complete_name_ref,                 *)
(* complete_patterns (SpecRouter)                                          *)
(***************************************************************************)
\* Most candidates one strategy call appends.
MaxOut == 1

\* context::NameKind
InertNameKinds ==
    {"ConstParam", "Enum", "MacroDef", "MacroRules", "Rename", "SelfParam",
     "Static", "Struct", "Trait", "TypeParam", "Union", "Variant"}

NameKinds ==
    {"Const", "Function", "IdentPat", "Module", "TypeAlias", "RecordField"}
        \cup InertNameKinds

\* context::NameRefKind
NameRefKinds == {"Path", "DotAccess", "Keyword", "RecordExpr", "Pattern"}

\* context::PathKind
PathKinds == {"Expr", "Type", "Attr", "Derive", "Item", "Pat", "Vis", "Use"}

\* context::TypeLocation
TypeLocations ==
    {"TupleField", "TypeAscription", "GenericArgList", "TypeBound",
     "ImplTarget", "ImplTrait", "Other"}

\* context::ItemListKind
ItemListKinds == {"SourceFile", "Module", "Impl", "TraitImpl", "Trait", "ExternBlock"}

\* The data a path kind carries that the routers look at (or hand on).
SubsOf(path_kind) ==
    CASE path_kind = "Type" -> TypeLocations
      [] path_kind = "Item" -> ItemListKinds
      [] path_kind = "Vis"  -> {"has_in_token", "no_in_token"}
      [] OTHER              -> {"-"}

\* NameContext { name, kind }
NameContexts ==
    {[shape |-> "name", kind |-> k, path_kind |-> "-", sub |-> "-"] : k \in NameKinds}

\* NameRefContext { nameref, kind }
NameRefContexts ==
    {[shape |-> "name_ref", kind |-> k, path_kind |-> "-", sub |-> "-"] :
        k \in NameRefKinds \ {"Path"}}
    \cup UNION {{[shape |-> "name_ref", kind |-> "Path", path_kind |-> pk, sub |-> s] :
                    s \in SubsOf(pk)} : pk \in PathKinds}

\* Mutant of complete_patterns: the general pattern strategy runs first.
complete_patterns_reordered ==
    <<"complete_pattern", "import_on_the_fly_pat", "complete_fn_param",
      "complete_record_pattern_fields">>

\* fn complete_patterns: the strategies it calls, in call order
complete_patterns ==
    <<"import_on_the_fly_pat", "complete_fn_param", "complete_pattern",
      "complete_record_pattern_fields">>

\* Mutant of complete_name: the Variant tag falls into an arm that panics.
complete_name_variant_unreachable(kind) ==
    CASE kind = "Const"       -> <<"complete_trait_impl_const">>
      [] kind = "Function"    -> <<"complete_trait_impl_fn">>
      [] kind = "IdentPat"    -> complete_patterns
      [] kind = "Module"      -> <<"complete_mod">>
      [] kind = "TypeAlias"   -> <<"complete_trait_impl_type_alias">>
      [] kind = "RecordField" -> <<"complete_field_list_record_variant">>
      [] kind \in {"ConstParam", "Enum", "MacroDef", "MacroRules", "Rename",
                   "SelfParam", "Static", "Struct", "Trait", "TypeParam",
                   "Union"} -> <<>>
      [] OTHER                -> <<"unreachable!">>

\* Mutant of complete_name: the Enum tag is routed to the record-field strategy.
complete_name_enum_routed(kind) ==
    CASE kind = "Const"       -> <<"complete_trait_impl_const">>
      [] kind = "Function"    -> <<"complete_trait_impl_fn">>
      [] kind = "IdentPat"    -> complete_patterns
      [] kind = "Module"      -> <<"complete_mod">>
      [] kind = "TypeAlias"   -> <<"complete_trait_impl_type_alias">>
      [] kind \in {"RecordField", "Enum"} -> <<"complete_field_list_record_variant">>
      [] kind \in InertNameKinds \ {"Enum"} -> <<>>

\* pub(super) fn complete_name: the strategies the matching arm calls
complete_name(kind) ==
    CASE kind = "Const"       -> <<"complete_trait_impl_const">>
      [] kind = "Function"    -> <<"complete_trait_impl_fn">>
      [] kind = "IdentPat"    -> complete_patterns
      [] kind = "Module"      -> <<"complete_mod">>
      [] kind = "TypeAlias"   -> <<"complete_trait_impl_type_alias">>
      [] kind = "RecordField" -> <<"complete_field_list_record_variant">>
      [] kind \in {"ConstParam", "Enum", "MacroDef", "MacroRules", "Rename",
                   "SelfParam", "Static", "Struct", "Trait", "TypeParam",
                   "Union", "Variant"} -> <<>>

\* Mutant of type_location_arm: the two extra strategies change places.
type_location_arm_swapped(location) ==
    CASE location = "TupleField"     -> <<"complete_ascribed_type">>
      [] location = "TypeAscription" -> <<"complete_field_list_tuple_variant">>
      [] location \in {"GenericArgList", "TypeBound", "ImplTarget", "ImplTrait",
                       "Other"}      -> <<>>

\* match location { .. }: what the Type arm adds after complete_type_path
type_location_arm(location) ==
    CASE location = "TupleField"     -> <<"complete_field_list_tuple_variant">>
      [] location = "TypeAscription" -> <<"complete_ascribed_type">>
      [] location \in {"GenericArgList", "TypeBound", "ImplTarget", "ImplTrait",
                       "Other"}      -> <<>>

\* PathKind::Expr { expr_ctx } => { .. }
path_expr_arm ==
    <<"complete_undotted_self", "complete_expr_path", "complete_item_list_in_expr",
      "complete_record_expr_func_update", "complete_expr_snippet">>

\* Mutant of path_item_arm: the trait-impl strategy runs in every item list.
path_item_arm_always_by_name(kind) ==
    <<"complete_item_list", "complete_item_snippet",
      "complete_trait_impl_item_by_name">>

\* PathKind::Item { kind } => { .. }
path_item_arm(kind) ==
    <<"complete_item_list", "complete_item_snippet">>
        \o (IF kind = "TraitImpl" THEN <<"complete_trait_impl_item_by_name">> ELSE <<>>)

\* Mutant of path_kind_match: the Attr arm runs on into the Derive arm.
path_kind_match_attr_falls_through(c) ==
    CASE c.path_kind = "Expr"   -> path_expr_arm
      [] c.path_kind = "Type"   -> <<"complete_type_path">> \o type_location_arm(c.sub)
      [] c.path_kind = "Attr"   -> <<"complete_attribute", "complete_derive">>
      [] c.path_kind = "Derive" -> <<"complete_derive">>
      [] c.path_kind = "Item"   -> path_item_arm(c.sub)
      [] c.path_kind = "Pat"    -> <<"complete_pattern_path">>
      [] c.path_kind = "Vis"    -> <<"complete_vis_path">>
      [] c.path_kind = "Use"    -> <<"complete_use_tree">>

\* match &path_ctx.kind { .. }
path_kind_match(c) ==
    CASE c.path_kind = "Expr"   -> path_expr_arm
      [] c.path_kind = "Type"   -> <<"complete_type_path">> \o type_location_arm(c.sub)
      [] c.path_kind = "Attr"   -> <<"complete_attribute">>
      [] c.path_kind = "Derive" -> <<"complete_derive">>
      [] c.path_kind = "Item"   -> path_item_arm(c.sub)
      [] c.path_kind = "Pat"    -> <<"complete_pattern_path">>
      [] c.path_kind = "Vis"    -> <<"complete_vis_path">>
      [] c.path_kind = "Use"    -> <<"complete_use_tree">>

\* Mutant of name_ref_path_arm: flyimport runs after the path-role strategies.
name_ref_path_arm_flyimport_last(c) ==
    path_kind_match(c) \o <<"import_on_the_fly_path">>

\* NameRefKind::Path(path_ctx) => { flyimport::import_on_the_fly_path(..); match .. }
name_ref_path_arm(c) == <<"import_on_the_fly_path">> \o path_kind_match(c)

\* Mutant of dot_access_arm: postfix snippets run before dot completion.
dot_access_arm_postfix_first ==
    <<"import_on_the_fly_dot", "complete_postfix", "complete_dot">>

\* NameRefKind::DotAccess(dot_access) => { .. }
dot_access_arm ==
    <<"import_on_the_fly_dot", "complete_dot", "complete_postfix">>

\* pub(super) fn complete_name_ref: the strategies the matching arm calls
complete_name_ref(c) ==
    CASE c.kind = "Path"       -> name_ref_path_arm(c)
      [] c.kind = "DotAccess"  -> dot_access_arm
      [] c.kind = "Keyword"    -> <<"complete_for_and_where">>
      [] c.kind = "RecordExpr" -> <<"complete_record_expr_fields">>
      [] c.kind = "Pattern"    -> complete_patterns

\* The k-th candidate a strategy call appended.
StrategyItem(strategy, k) == Item(strategy, NoSym, FALSE, <<k>>, <<>>, FALSE)

\* A strategy function: it appends n candidates through the accumulator.
run_strategy(b, strategy, n) ==
    add_all(b, [k \in 1..n |-> StrategyItem(strategy, k)])

\* A candidate appended before the router was entered.
EarlierItem == CompletionItem_new("Earlier", <<>>)

\* The router is entered with a classified context and an accumulator.
InitRouter ==
    /\ ctx_kind \in NameContexts \cup NameRefContexts
    /\ buf0 \in {<<>>, <<EarlierItem>>}
    /\ buf = buf0
    /\ rpc = "start"
    /\ todo = <<>>
    /\ trace = <<>>
    /\ snippet_cap = "None" /\ consumed = FALSE /\ out = <<>> /\ last = NoCall
    /\ IdleEnum

\* complete_name: match kind { .. } selects its arm
EnterCompleteName ==
    /\ rpc = "start"
    /\ ctx_kind.shape = "name"
    /\ todo' = complete_name(ctx_kind.kind)
    /\ rpc' = "running"
    /\ UNCHANGED <<ctx_kind, trace, buf0>>
    /\ UNCHANGED acc_vars /\ UNCHANGED enum_vars

\* complete_name_ref: match kind { .. } selects its arm
EnterCompleteNameRef ==
    /\ rpc = "start"
    /\ ctx_kind.shape = "name_ref"
    /\ todo' = complete_name_ref(ctx_kind)
    /\ rpc' = "running"
    /\ UNCHANGED <<ctx_kind, trace, buf0>>
    /\ UNCHANGED acc_vars /\ UNCHANGED enum_vars

\* Mutant of InvokeStrategy: the arm's pending calls run in any order.
InvokeStrategyAnyOrder ==
    /\ rpc = "running"
    /\ todo # <<>>
    /\ \E i \in DOMAIN todo :
          /\ \E n \in 0..MaxOut : buf' = run_strategy(buf, todo[i], n)
          /\ trace' = Append(trace, todo[i])
          /\ todo' = SubSeq(todo, 1, i - 1) \o SubSeq(todo, i + 1, Len(todo))
    /\ UNCHANGED <<ctx_kind, rpc, buf0>>
    /\ UNCHANGED <<snippet_cap, consumed, out, last>> /\ UNCHANGED enum_vars

\* The arm's next strategy call runs to completion.
InvokeStrategy ==
    /\ rpc = "running"
    /\ todo # <<>>
    /\ \E n \in 0..MaxOut : buf' = run_strategy(buf, Head(todo), n)
    /\ trace' = Append(trace, Head(todo))
    /\ todo' = Tail(todo)
    /\ UNCHANGED <<ctx_kind, rpc, buf0>>
    /\ UNCHANGED <<snippet_cap, consumed, out, last>> /\ UNCHANGED enum_vars

\* The arm is through: the router returns.
RouterReturn ==
    /\ rpc = "running"
    /\ todo = <<>>
    /\ rpc' = "done"
    /\ UNCHANGED <<ctx_kind, todo, trace, buf0>>
    /\ UNCHANGED acc_vars /\ UNCHANGED enum_vars

NextRouter ==
    \/ EnterCompleteName \/ EnterCompleteNameRef \/ InvokeStrategy \/ RouterReturn

SpecRouter == InitRouter /\ [][NextRouter]_vars

(***************************************************************************)
(* Properties of the routers (checked under SpecRouter)                    *)
(***************************************************************************)
IsNameRef(kind) == ctx_kind.shape = "name_ref" /\ ctx_kind.kind = kind

IsName(kind) == ctx_kind.shape = "name" /\ ctx_kind.kind = kind

\* What the strategies appended since the router was entered.
Appended == SubSeq(buf, Len(buf0) + 1, Len(buf))

\* The trace so far is the start of seq, and all of seq once the router returned.
Runs(seq) == IsPrefix(trace, seq) /\ (rpc = "done" => trace = seq)

\* C7: for a Path reference, whatever the path role, the flyimport path
\* strategy is invoked, first and once; for the Expression role the whole
\* sequence is flyimport, implicit self receiver, expression path, item list
\* in expression position, record update, expression snippets.
C7_PathFlyimportFirst ==
    IsNameRef("Path") =>
        /\ rpc = "done" => trace # <<>>
        /\ \A i \in DOMAIN trace :
               trace[i] = "import_on_the_fly_path" <=> i = 1
        /\ ctx_kind.path_kind = "Expr" =>
               Runs(<<"import_on_the_fly_path", "complete_undotted_self",
                      "complete_expr_path", "complete_item_list_in_expr",
                      "complete_record_expr_func_update", "complete_expr_snippet">>)

\* C7 witness: an Expression-role request returned and each of its six
\* strategies contributed.
C7_Witness ==
    /\ IsNameRef("Path") /\ ctx_kind.path_kind = "Expr"
    /\ rpc = "done"
    /\ Len(trace) = 6
    /\ \A i \in DOMAIN trace : \E k \in DOMAIN Appended : Appended[k].by = trace[i]

PatternBundle ==
    <<"import_on_the_fly_pat", "complete_fn_param", "complete_pattern",
      "complete_record_pattern_fields">>

\* C8: NameKind::IdentPat and NameRefKind::Pattern invoke the same strategies:
\* flyimport for patterns, function parameters, patterns, record pattern
\* fields, in that order and nothing else.
C8_PatternBundleShared ==
    /\ (IsName("IdentPat") \/ IsNameRef("Pattern")) => Runs(PatternBundle)
    /\ complete_name("IdentPat")
           = complete_name_ref([shape |-> "name_ref", kind |-> "Pattern",
                                path_kind |-> "-", sub |-> "-"])

\* C8 witness: a declaration-side identifier pattern request returned after
\* the four strategies, each of which contributed.
C8_Witness ==
    /\ IsName("IdentPat")
    /\ rpc = "done"
    /\ trace = PatternBundle
    /\ Len(Appended) >= 4

DotRank(by) ==
    CASE by = "import_on_the_fly_dot" -> 1
      [] by = "complete_dot"          -> 2
      [] by = "complete_postfix"      -> 3
      [] OTHER                        -> 0

\* C9: for a dot access the router invokes flyimport for member access, dot
\* completion and postfix snippets, each once, in that order; in the
\* accumulator flyimport's candidates precede dot's, which precede postfix's.
C9_DotAccessOrder ==
    IsNameRef("DotAccess") =>
        /\ Runs(<<"import_on_the_fly_dot", "complete_dot", "complete_postfix">>)
        /\ IsPrefix(buf0, buf)
        /\ \A i \in DOMAIN Appended : DotRank(Appended[i].by) > 0
        /\ \A i, j \in DOMAIN Appended :
               i < j => DotRank(Appended[i].by) <= DotRank(Appended[j].by)

\* C9 witness: a dot-access request returned with candidates of all three
\* strategies behind an earlier candidate.
C9_Witness ==
    /\ IsNameRef("DotAccess")
    /\ rpc = "done"
    /\ buf0 # <<>>
    /\ {Appended[i].by : i \in DOMAIN Appended}
           = {"import_on_the_fly_dot", "complete_dot", "complete_postfix"}

\* C10: for an inert declaration tag complete_name invokes no strategy and
\* leaves the accumulator as it was (an empty one converts to an empty
\* output); for every other declaration tag at least one strategy is invoked.
C10_InertNameKinds ==
    ctx_kind.shape = "name" =>
        /\ ctx_kind.kind \in InertNameKinds =>
               /\ trace = <<>> /\ todo = <<>>
               /\ buf = buf0
               /\ buf0 = <<>> => From(buf) = <<>>
        /\ (ctx_kind.kind \notin InertNameKinds /\ rpc = "done") => Len(trace) >= 1

\* C10 witness: a request naming an enum returned, its empty accumulator
\* still empty.
C10_Witness ==
    /\ IsName("Enum")
    /\ rpc = "done"
    /\ buf0 = <<>> /\ buf = <<>>

(***************************************************************************)
(* Properties of the keyword snippet methods (checked under Spec)          *)
(***************************************************************************)
KeywordSnippetOps == {"add_keyword_snippet", "add_keyword_snippet_expr"}

HasPlaceholder(snippet) == \E i \in DOMAIN snippet : snippet[i] = "$"

IsBlock(snippet) == snippet # <<>> /\ snippet[Len(snippet)] = "}"

\* The candidate the last call appended.
Newest == buf[Len(buf)]

\* C11: without the snippet capability both keyword snippet methods append a
\* plain-text candidate: the bare keyword when the snippet body holds a '$',
\* the literal body otherwise; never a snippet, never with a ';' added.
C11_SnippetDegradation ==
    (last.op \in KeywordSnippetOps /\ snippet_cap = "None") =>
        /\ buf # <<>>
        /\ Newest.label = last.kw
        /\ ~Newest.is_snippet
        /\ Newest.insert = IF HasPlaceholder(last.snippet) THEN last.kw
                           ELSE last.snippet

\* C11 witness: a block snippet with a placeholder, asked for inside an
\* incomplete let without the capability, inserted the bare keyword.
C11_Witness ==
    /\ last.op = "add_keyword_snippet_expr"
    /\ snippet_cap = "None"
    /\ last.incomplete_let
    /\ IsBlock(last.snippet)
    /\ HasPlaceholder(last.snippet) /\ last.snippet[1] # "$"
    /\ Newest.insert = last.kw

\* C12: with the snippet capability add_keyword_snippet_expr inserts the
\* snippet body followed by one ';' exactly when the body ends with '}' and
\* the incomplete-let flag is set, and the body unmodified otherwise.
C12_IncompleteLetSemicolon ==
    (last.op = "add_keyword_snippet_expr" /\ snippet_cap = "Some") =>
        /\ buf # <<>>
        /\ Newest.label = last.kw
        /\ Newest.is_snippet
        /\ Newest.insert = IF IsBlock(last.snippet) /\ last.incomplete_let
                           THEN last.snippet \o <<";">>
                           ELSE last.snippet

\* C12 witness: a block snippet completed inside an incomplete let got its ';'.
C12_Witness ==
    /\ last.op = "add_keyword_snippet_expr"
    /\ snippet_cap = "Some"
    /\ last.incomplete_let
    /\ IsBlock(last.snippet)
    /\ Newest.insert = last.snippet \o <<";">>

(***************************************************************************)
(* Further properties of the routers (checked under SpecRouter)            *)
(***************************************************************************)
\* The strategy functions of the modules completions.rs declares.
StrategyFunctions ==
    {"complete_trait_impl_const", "complete_trait_impl_fn", "complete_mod",
     "complete_trait_impl_type_alias", "complete_field_list_record_variant",
     "import_on_the_fly_path", "complete_undotted_self", "complete_expr_path",
     "complete_item_list_in_expr", "complete_record_expr_func_update",
     "complete_expr_snippet", "complete_type_path",
     "complete_field_list_tuple_variant", "complete_ascribed_type",
     "complete_attribute", "complete_derive", "complete_item_list",
     "complete_item_snippet", "complete_trait_impl_item_by_name",
     "complete_pattern_path", "complete_vis_path", "complete_use_tree",
     "import_on_the_fly_dot", "complete_dot", "complete_postfix",
     "complete_for_and_where", "complete_record_expr_fields",
     "import_on_the_fly_pat", "complete_fn_param", "complete_pattern",
     "complete_record_pattern_fields"}

\* C13: for every declaration tag, reference tag, path role and type location
\* the router finds an arm that calls strategy functions only, and runs on
\* until it returns, also when no strategy contributes a candidate.
C13_Exhaustive ==
    /\ rpc # "done" => ENABLED NextRouter
    /\ \A i \in DOMAIN todo : todo[i] \in StrategyFunctions
    /\ \A i \in DOMAIN trace : trace[i] \in StrategyFunctions

\* C13 witness: a request in a trait-bound type slot returned after its
\* strategies ran and none of them contributed.
C13_Witness ==
    /\ IsNameRef("Path") /\ ctx_kind.path_kind = "Type" /\ ctx_kind.sub = "TypeBound"
    /\ rpc = "done"
    /\ trace # <<>>
    /\ buf = buf0

\* The strategy calls the context's arm makes, in call order.
PlanOf(c) == IF c.shape = "name" THEN complete_name(c.kind) ELSE complete_name_ref(c)

\* What strategy s contributed, in the order it sits in the accumulator.
OutputOf(s) == LET IsBy(it) == it.by = s IN SelectSeq(Appended, IsBy)

\* The contributions of the strategies called so far, call after call.
RECURSIVE OutputsFrom(_)
OutputsFrom(i) ==
    IF i > Len(trace) THEN <<>> ELSE OutputOf(trace[i]) \o OutputsFrom(i + 1)

\* C14: a run's result is a function of its inputs: the strategy calls are
\* those of the context's arm, in the arm's order, whatever the accumulator
\* held and whatever the strategies contribute, and the accumulator is what
\* it held before followed by each strategy's contribution, whole and in call
\* order. Two runs on the same context and strategy outputs therefore agree
\* element for element.
C14_OrderStable ==
    /\ rpc \in {"running", "done"} =>
           /\ trace \o todo = PlanOf(ctx_kind)
           /\ rpc = "done" => todo = <<>>
    /\ buf = buf0 \o OutputsFrom(1)
    /\ \A i \in DOMAIN trace :
           OutputOf(trace[i]) =
               [k \in 1..Len(OutputOf(trace[i])) |-> StrategyItem(trace[i], k)]

\* C14 witness: an Expression-role request returned; some of its six
\* strategies contributed behind an earlier candidate, others did not.
C14_Witness ==
    /\ IsNameRef("Path") /\ ctx_kind.path_kind = "Expr"
    /\ rpc = "done"
    /\ buf0 # <<>>
    /\ Len(Appended) >= 2
    /\ \E i, j \in DOMAIN trace : OutputOf(trace[i]) = <<>> /\ OutputOf(trace[j]) # <<>>

\* C15: for a path in type position the calls are flyimport, type path, and
\* then tuple-field completions exactly for TupleField, ascribed-type
\* completions exactly for TypeAscription, nothing more for the other
\* locations; the extra strategy comes after complete_type_path.
C15_TypePosition ==
    (IsNameRef("Path") /\ ctx_kind.path_kind = "Type") =>
        Runs(<<"import_on_the_fly_path", "complete_type_path">>
             \o (CASE ctx_kind.sub = "TupleField" ->
                          <<"complete_field_list_tuple_variant">>
                   [] ctx_kind.sub = "TypeAscription" ->
                          <<"complete_ascribed_type">>
                   [] OTHER -> <<>>))

\* C15 witness: a request in a tuple-struct field type returned after three
\* calls, the last being the tuple-field strategy, which contributed.
C15_Witness ==
    /\ IsNameRef("Path") /\ ctx_kind.path_kind = "Type" /\ ctx_kind.sub = "TupleField"
    /\ rpc = "done"
    /\ Len(trace) = 3
    /\ OutputOf("complete_field_list_tuple_variant") # <<>>

\* C16: for a path in item position the item-list and item-snippet strategies
\* are always called; the trait-impl-item-by-name strategy is called exactly
\* in a trait implementation body, and then after those two.
C16_ItemPosition ==
    (IsNameRef("Path") /\ ctx_kind.path_kind = "Item") =>
        Runs(<<"import_on_the_fly_path", "complete_item_list", "complete_item_snippet">>
             \o (IF ctx_kind.sub = "TraitImpl"
                 THEN <<"complete_trait_impl_item_by_name">> ELSE <<>>))

\* C16 witness: a request in a trait implementation body returned and the
\* by-name strategy contributed last.
C16_Witness ==
    /\ IsNameRef("Path") /\ ctx_kind.path_kind = "Item" /\ ctx_kind.sub = "TraitImpl"
    /\ rpc = "done"
    /\ Len(trace) = 4
    /\ Appended # <<>>
    /\ Appended[Len(Appended)].by = "complete_trait_impl_item_by_name"

\* The strategies that belong to a path role.
RoleStrategies(path_kind) ==
    CASE path_kind = "Expr"   -> {"complete_undotted_self", "complete_expr_path",
                                  "complete_item_list_in_expr",
                                  "complete_record_expr_func_update",
                                  "complete_expr_snippet"}
      [] path_kind = "Type"   -> {"complete_type_path",
                                  "complete_field_list_tuple_variant",
                                  "complete_ascribed_type"}
      [] path_kind = "Attr"   -> {"complete_attribute"}
      [] path_kind = "Derive" -> {"complete_derive"}
      [] path_kind = "Item"   -> {"complete_item_list", "complete_item_snippet",
                                  "complete_trait_impl_item_by_name"}
      [] path_kind = "Pat"    -> {"complete_pattern_path"}
      [] path_kind = "Vis"    -> {"complete_vis_path"}
      [] path_kind = "Use"    -> {"complete_use_tree"}

\* The strategies that belong to a context's tag.
TagStrategies(c) ==
    CASE c.shape = "name_ref" /\ c.kind = "Path" ->
             {"import_on_the_fly_path"} \cup RoleStrategies(c.path_kind)
      [] c.shape = "name_ref" /\ c.kind = "DotAccess" ->
             {"import_on_the_fly_dot", "complete_dot", "complete_postfix"}
      [] c.shape = "name_ref" /\ c.kind = "Keyword" -> {"complete_for_and_where"}
      [] c.shape = "name_ref" /\ c.kind = "RecordExpr" ->
             {"complete_record_expr_fields"}
      [] c.shape = "name_ref" /\ c.kind = "Pattern" ->
             {PatternBundle[i] : i \in DOMAIN PatternBundle}
      [] c.shape = "name" /\ c.kind = "Const" -> {"complete_trait_impl_const"}
      [] c.shape = "name" /\ c.kind = "Function" -> {"complete_trait_impl_fn"}
      [] c.shape = "name" /\ c.kind = "IdentPat" ->
             {PatternBundle[i] : i \in DOMAIN PatternBundle}
      [] c.shape = "name" /\ c.kind = "Module" -> {"complete_mod"}
      [] c.shape = "name" /\ c.kind = "TypeAlias" ->
             {"complete_trait_impl_type_alias"}
      [] c.shape = "name" /\ c.kind = "RecordField" ->
             {"complete_field_list_record_variant"}
      [] OTHER -> {}

\* C19: a request calls only strategies of its context's tag (for a path: of
\* its path role), each at most once, and whatever joins the accumulator was
\* appended by one of the strategies called, behind what was there before.
C19_DispatchExclusive ==
    /\ \A i \in DOMAIN trace : trace[i] \in TagStrategies(ctx_kind)
    /\ \A i \in DOMAIN todo : todo[i] \in TagStrategies(ctx_kind)
    /\ \A i, j \in DOMAIN trace : trace[i] = trace[j] => i = j
    /\ IsPrefix(buf0, buf)
    /\ \A k \in DOMAIN Appended :
           \E i \in DOMAIN trace : Appended[k].by = trace[i]

\* C19 witness: an attribute-position request returned after flyimport and
\* the attribute strategy, both of which contributed.
C19_Witness ==
    /\ IsNameRef("Path") /\ ctx_kind.path_kind = "Attr"
    /\ rpc = "done"
    /\ trace = <<"import_on_the_fly_path", "complete_attribute">>
    /\ OutputOf("import_on_the_fly_path") # <<>>
    /\ OutputOf("complete_attribute") # <<>>

(***************************************************************************)
(* Further properties of enum_variants_with_paths (checked under SpecEnum) *)
(***************************************************************************)
\* The variants with an import path of more than one segment, in declared
\* order, each with that path.
ImportCalls ==
    LET Multi(v) == use_path[v] > 1
        vs == SelectSeq(variants, Multi)
    IN  [i \in 1..Len(vs) |-> [variant |-> vs[i], path |-> find_use_path(vs[i])[1]]]

\* C17: without an enclosing impl no Self:: path reaches the callback, and
\* the callback sequence is exactly the variants whose minimal import path
\* exists and has more than one segment, once each with that path, in
\* declared order.
C17_NoImplImportPathsInOrder ==
    impl_ = "none" =>
        /\ \A i \in DOMAIN cb_log : ~IsSelfPath(cb_log[i].path)
        /\ IsPrefix(cb_log, ImportCalls)
        /\ epc = "done" => cb_log = ImportCalls

\* C17 witness: enum Color { Red, Green } with two-segment paths and no impl
\* gave Color::Red, then Color::Green.
C17_Witness ==
    /\ epc = "done"
    /\ impl_ = "none"
    /\ variants = <<1, 2>>
    /\ use_path = <<2, 2>>
    /\ cb_log = <<[variant |-> 1, path |-> <<<<"E">>, variant_name(1)>>],
                  [variant |-> 2, path |-> <<<<"E">>, variant_name(2)>>]>>

\* The positions of cb_log that carry a Self:: path.
SelfCalls == {i \in DOMAIN cb_log : IsSelfPath(cb_log[i].path)}

\* C18: Self::<variant> reaches the callback for every variant, whatever its
\* import path, when the impl is given, resolves and has this enum as self
\* type; without an impl, with an unresolved one or one for another type no
\* Self:: path reaches it.
C18_SelfPathsIffImplOfEnum ==
    /\ (impl_ = "this_enum" /\ epc \in {"path_loop", "done"}) =>
           /\ SelfCalls = 1..Len(variants)
           /\ \A i \in 1..Len(variants) :
                  cb_log[i] = [variant |-> variants[i], path |-> self_path(variants[i])]
    /\ impl_ \in {"none", "unresolved", "other_type"} => SelfCalls = {}

\* C18 witness: inside the enum's impl a variant without import path and one
\* in scope by its bare name both got their Self:: path, and nothing else.
C18_Witness ==
    /\ epc = "done"
    /\ impl_ = "this_enum"
    /\ \E v, w \in DOMAIN use_path : use_path[v] = 0 /\ use_path[w] = 1
    /\ Len(variants) = 2
    /\ SelfCalls = {1, 2}
    /\ Len(cb_log) = 2

(***************************************************************************)
(* Growth per call (checked under Spec)                                    *)
(***************************************************************************)
\* The methods that take one symbol or definition.
SingleSymbolOps ==
    SymbolTypedOps \cup {"add_resolution", "add_resolution_simple", "add_tuple_field"}

\* The methods that build one candidate from a literal or a name.
SingleLiteralOps ==
    {"add_keyword", "add_keyword_snippet", "add_keyword_snippet_expr",
     "add_lifetime", "add_label"}

\* The labels of the candidates a step appended.
NewLabels(before, after) ==
    [i \in 1..(Len(after) - Len(before)) |-> after[Len(before) + i].label]

\* C20: a call of a single-symbol method appends at most one candidate; a
\* call of add_keyword, add_keyword_snippet, add_keyword_snippet_expr,
\* add_lifetime or add_label appends exactly one; add_nameref_keywords appends
\* exactly self, super, crate and add_nameref_keywords_with_colon exactly
\* self::, super::, crate::, in that order, under either snippet capability.
C20_GrowthPerCall ==
    [][/\ IsPrefix(buf, buf')
       /\ last'.op \in SingleSymbolOps => Len(buf') <= Len(buf) + 1
       /\ last'.op \in SingleLiteralOps => Len(buf') = Len(buf) + 1
       /\ last'.op = "add_nameref_keywords" =>
              NewLabels(buf, buf') = << <<"s", "e", "l", "f">>,
                                        <<"s", "u", "p", "e", "r">>,
                                        <<"c", "r", "a", "t", "e">> >>
       /\ last'.op = "add_nameref_keywords_with_colon" =>
              NewLabels(buf, buf') = << <<"s", "e", "l", "f", ":", ":">>,
                                        <<"s", "u", "p", "e", "r", ":", ":">>,
                                        <<"c", "r", "a", "t", "e", ":", ":">> >>]_vars

\* C20 witness: with the snippet capability, add_nameref_keywords appended its
\* three keywords behind a candidate for a symbol.
C20_Witness ==
    /\ last.op = "add_nameref_keywords"
    /\ snippet_cap = "Some"
    /\ Len(buf) = 4
    /\ buf[1].sym \in Sym
    /\ buf[2].label = KW_SELF /\ buf[3].label = KW_SUPER /\ buf[4].label = KW_CRATE

(***************************************************************************)
(* Callback counts of enum_variants_with_paths (checked under SpecEnum)    *)
(***************************************************************************)
\* The paths the callback got for variant v, in call order.
PathsFor(v) ==
    LET RECURSIVE from(_)
        from(i) == IF i > Len(cb_log) THEN <<>>
                   ELSE IF cb_log[i].variant = v
                        THEN <<cb_log[i].path>> \o from(i + 1)
                        ELSE from(i + 1)
    IN  from(1)

\* C21: the callback is invoked at most twice per variant and at most twice
\* the number of variants in all; when the function has returned, a variant
\* got two invocations exactly when the impl's self type is the enum and its
\* import path has more than one segment (first Self::<variant>, then the
\* import path, nothing merged), a variant without import path and without
\* matching impl got none, and the function always runs on to its return.
C21_CallbackCounts ==
    /\ Len(cb_log) <= 2 * Len(variants)
    /\ \A i \in DOMAIN cb_log : cb_log[i].variant \in DOMAIN use_path
    /\ \A v \in DOMAIN use_path : Cardinality(CallsFor(v)) <= 2
    /\ epc # "done" => ENABLED NextEnum
    /\ epc = "done" =>
           \A v \in DOMAIN use_path :
               /\ Cardinality(CallsFor(v)) = 2
                      <=> (impl_ = "this_enum" /\ use_path[v] > 1)
               /\ Cardinality(CallsFor(v)) = 2 =>
                      PathsFor(v) = <<self_path(v), find_use_path(v)[1]>>
               /\ (use_path[v] = 0 /\ impl_ # "this_enum") => CallsFor(v) = {}

\* C21 witness: the function has returned under an impl of the enum; the
\* first variant, importable as E::V, got two invocations, the second, not
\* importable, got one.
C21_Witness ==
    /\ epc = "done"
    /\ impl_ = "this_enum"
    /\ Len(variants) = 2
    /\ use_path[1] = 2 /\ use_path[2] = 0
    /\ Cardinality(CallsFor(1)) = 2 /\ Cardinality(CallsFor(2)) = 1
    /\ Len(cb_log) = 3

====
